---- MODULE Spec2Model ----
(***************************************************************************)
(* The Estimote packet decoders.                                           *)
(*                                                                         *)
(*   parseEstimoteTelemetryPacket   src/estimote-telemetry.js              *)
(*   parseEstimoteNearablePacket    src/unnamed/part_000                   *)
(*                                                                         *)
(* A call is a frame: the buffer it was given, the statement it is at and  *)
(* its local variables.  One step of a frame executes one statement of the *)
(* source.  A sequential call runs the steps to completion; interleaved    *)
(* calls take their steps in any order.  The only state outside the frames *)
(* is the global variable `temperature`, which the Telemetry decoder       *)
(* assigns without declaring it (estimote-telemetry.js line 205).          *)
(*                                                                         *)
(* JavaScript values: `undefined` is <<>> and a defined value v is <<v>>.  *)
(* A floating-point quotient n / d is kept exactly, as Ratio(n, d).        *)
(***************************************************************************)
EXTENDS Integers, Sequences, FiniteSets, TLC

VARIABLES
    data,         \* the buffer handed to the decoder
    decoder,      \* the decoder last applied: "none", "telemetry", "nearable"
    result,       \* what that call did: a record, undefined or a RangeError
    calls,        \* number of decode calls made so far
    temperature,  \* the global variable `temperature` of estimote-telemetry.js
    frames,       \* the interleaved calls in progress
    byte,         \* the byte handed to the motion-state duration decoders
    duration      \* what the two duration decoders made of `byte`

vars == <<data, decoder, result, calls, temperature, frames, byte, duration>>

----------------------------------------------------------------------------
(* Bounds of the model *)

\* Length of a full buffer (the input contract's length).
BufferLength == 21

\* Number of sequential decode calls followed.
MaxCalls == 3

\* Number of decode calls interleaved.
NumCalls == 2

----------------------------------------------------------------------------
(* JavaScript values and operators *)

Undefined == <<>>

Some(v) == <<v>>

Ratio(n, d) == [num |-> n, den |-> d]

Min(a, b) == IF a < b THEN a ELSE b

RECURSIVE BitAnd(_, _)
BitAnd(a, b) ==
    IF a = 0 \/ b = 0 THEN 0
    ELSE (a % 2) * (b % 2) + 2 * BitAnd(a \div 2, b \div 2)

RECURSIVE BitOr(_, _)
BitOr(a, b) ==
    IF a = 0 THEN b
    ELSE IF b = 0 THEN a
    ELSE (IF a % 2 = 1 \/ b % 2 = 1 THEN 1 ELSE 0) + 2 * BitOr(a \div 2, b \div 2)

Shl(a, n) == a * 2^n

Shr(a, n) == a \div 2^n

----------------------------------------------------------------------------
(* Node's Buffer *)

\* Whether the n bytes at offset off lie inside the buffer; a read outside
\* throws a RangeError.
CanRead(d, off, n) == off + n <= Len(d)

readUInt8(d, off) == d[off + 1]

readInt8(d, off) == IF d[off + 1] > 127 THEN d[off + 1] - 256 ELSE d[off + 1]

readUInt16LE(d, off) == d[off + 1] + 256 * d[off + 2]

\* An unsigned 32-bit value exceeds the 32-bit signed integers of TLC: it is
\* kept as its quotient and its remainder by 256, the value being
\* 256 * high + low.
readUInt32LE(d, off) ==
    [high |-> d[off + 2] + 256 * d[off + 3] + 65536 * d[off + 4],
     low  |-> d[off + 1]]

HexDigits ==
    <<"0", "1", "2", "3", "4", "5", "6", "7",
      "8", "9", "a", "b", "c", "d", "e", "f">>

\* data.toString('hex', start, end): two digits per byte; end is clamped to
\* the buffer's length, and nothing is out of range.
toStringHex(d, start, end) ==
    LET e == Min(end, Len(d))
    IN  IF start >= e THEN <<>>
        ELSE [i \in 1..(2 * (e - start)) |->
                LET b == d[start + ((i + 1) \div 2)]
                IN  IF i % 2 = 1 THEN HexDigits[(b \div 16) + 1]
                    ELSE HexDigits[(b % 16) + 1]]

----------------------------------------------------------------------------
(* Frames *)

TelemetryLocals ==
    {"frameType", "protocolVersion", "shortIdentifier", "subFrameType",
     "acceleration", "isMoving", "motionStateDuration", "gpio", "errors",
     "pressure", "magneticField", "ambientLightUpper", "ambientLightLower",
     "ambientLightLevel", "uptimeUnitCode", "uptimeUnit", "uptime",
     "temperatureRawValue", "batteryVoltage", "batteryLevel"}

NearableLocals ==
    {"companyId", "frameType", "nearableId", "temperatureRawValue",
     "temperature", "isMoving", "acceleration", "motionStateDuration"}

\* A call that has just been entered: every `var` is hoisted and undefined.
NewFrame(fn, d) ==
    [fn   |-> fn,
     pc   |-> IF fn = "telemetry" THEN "T11" ELSE "N15",
     data |-> d,
     v    |-> [n \in (IF fn = "telemetry" THEN TelemetryLocals ELSE NearableLocals)
                 |-> Undefined],
     ret  |-> Undefined]

Finished(f) == f.pc \in {"returned", "thrown"}

Assign(f, name, val, next) == [f EXCEPT !.v[name] = val, !.pc = next]

Goto(f, next) == [f EXCEPT !.pc = next]

Throw(f) == [f EXCEPT !.pc = "thrown"]

Return(f, r) == [f EXCEPT !.pc = "returned", !.ret = r]

\* What the caller sees of a finished call.
Outcome(f) ==
    [kind  |-> IF f.pc = "thrown" THEN "RangeError"
               ELSE IF f.ret = Undefined THEN "undefined"
               ELSE "record",
     value |-> f.ret]

NotCalled == [kind |-> "none", value |-> Undefined]

----------------------------------------------------------------------------
(* parseEstimoteTelemetryPacket: the values its statements compute *)

ESTIMOTE_FRAME_TYPE_TELEMETRY == 2

ESTIMOTE_TELEMETRY_SUBFRAME_A == 0

ESTIMOTE_TELEMETRY_SUBFRAME_B == 1

\* line 11: byte 0, lower 4 bits
telemetryFrameType(d) == BitAnd(readUInt8(d, 0), 15)

\* line 16: byte 0, upper 4 bits
protocolVersion(d) == Shr(BitAnd(readUInt8(d, 0), 240), 4)

\* line 22: bytes 1..8 as hex
shortIdentifier(d) == toStringHex(d, 1, 9)

\* line 27: byte 9, lower 2 bits
subFrameType(d) == BitAnd(readUInt8(d, 9), 3)

\* lines 43-47: RAW_VALUE * 2 / 127.0
accelerationA(d) ==
    [x |-> Ratio(readInt8(d, 10) * 2, 127),
     y |-> Ratio(readInt8(d, 11) * 2, 127),
     z |-> Ratio(readInt8(d, 12) * 2, 127)]

\* line 52: byte 15, lower 2 bits
isMovingA(d) == BitAnd(readUInt8(d, 15), 3) = 1

\* The Telemetry duration decoder with the Nearable decoder's threshold.
parseMotionStateDurationTelemetryStrict(b) ==
    LET number   == BitAnd(b, 63)
        unitCode == Shr(BitAnd(b, 192), 6)
    IN  IF unitCode = 0 THEN [number |-> number, unit |-> "seconds"]
        ELSE IF unitCode = 1 THEN [number |-> number, unit |-> "minutes"]
        ELSE IF unitCode = 2 THEN [number |-> number, unit |-> "hours"]
        ELSE IF unitCode = 3 /\ number < 32 THEN [number |-> number, unit |-> "days"]
        ELSE [number |-> number - 32, unit |-> "weeks"]

\* lines 69-86
parseMotionStateDurationTelemetry(b) ==
    LET number   == BitAnd(b, 63)
        unitCode == Shr(BitAnd(b, 192), 6)
    IN  IF unitCode = 0 THEN [number |-> number, unit |-> "seconds"]
        ELSE IF unitCode = 1 THEN [number |-> number, unit |-> "minutes"]
        ELSE IF unitCode = 2 THEN [number |-> number, unit |-> "hours"]
        ELSE IF unitCode = 3 /\ number <= 32 THEN [number |-> number, unit |-> "days"]
        ELSE [number |-> number - 32, unit |-> "weeks"]

\* lines 87-90: previous from byte 13, current from byte 14
motionStateDurationA(d) ==
    [previous |-> parseMotionStateDurationTelemetry(readUInt8(d, 13)),
     current  |-> parseMotionStateDurationTelemetry(readUInt8(d, 14))]

\* lines 95-100: byte 15, upper 4 bits, one bit per pin
gpio(d) ==
    LET b == readUInt8(d, 15)
        level(mask, shift) == IF Shr(BitAnd(b, mask), shift) # 0 THEN "high" ELSE "low"
    IN  [pin0 |-> level(16, 4), pin1 |-> level(32, 5),
         pin2 |-> level(64, 6), pin3 |-> level(128, 7)]

\* lines 103-125: the offset the statement reads, if it reads one
errorsAOffset(pv) == IF pv = 2 THEN 15 ELSE 16

errorsAReads(pv) == pv = 2 \/ pv = 1

errorsA(d, pv) ==
    IF pv = 2
    THEN Some([hasFirmwareError |-> Shr(BitAnd(readUInt8(d, 15), 4), 2) = 1,
               hasClockError    |-> Shr(BitAnd(readUInt8(d, 15), 8), 3) = 1])
    ELSE IF pv = 1
    THEN Some([hasFirmwareError |-> BitAnd(readUInt8(d, 16), 1) = 1,
               hasClockError    |-> Shr(BitAnd(readUInt8(d, 16), 2), 1) = 1])
    ELSE Undefined

\* lines 128-140: version 2 only, RAW_VALUE / 256.0
pressureReads(pv) == pv = 2

\* RAW_VALUE / 256.0 is whole + num / den pascals
pressure(d, pv) ==
    IF pv = 2
    THEN Some([whole |-> readUInt32LE(d, 16).high,
               num   |-> readUInt32LE(d, 16).low,
               den   |-> 256])
    ELSE Undefined

\* lines 160-164: RAW_VALUE / 128.0
magneticField(d) ==
    [x |-> Ratio(readInt8(d, 10), 128),
     y |-> Ratio(readInt8(d, 11), 128),
     z |-> Ratio(readInt8(d, 12), 128)]

\* line 170
ambientLightUpper(d) == Shr(BitAnd(readUInt8(d, 13), 240), 4)

\* line 171
ambientLightLower(d) == BitAnd(readUInt8(d, 13), 15)

\* line 172: pow(2, upper) * lower * 0.72
ambientLightLevel(upper, lower) == Ratio(2^upper * lower * 72, 100)

\* line 180: byte 15, bits 4 and 5
uptimeUnitCode(d) == Shr(BitAnd(readUInt8(d, 15), 48), 4)

\* lines 182-187: the four cases cover every 2-bit code
uptimeUnit(code) ==
    CASE code = 0 -> Some("seconds")
      [] code = 1 -> Some("minutes")
      [] code = 2 -> Some("hours")
      [] code = 3 -> Some("days")
      [] OTHER    -> Undefined

\* lines 188-191: byte 14 and the lower 4 bits of byte 15
uptimeNumber(d) == BitOr(Shl(BitAnd(readUInt8(d, 15), 15), 8), readUInt8(d, 14))

\* The temperature taking the lower instead of the upper 2 bits of byte 15.
temperatureRawValueLowBits(d) ==
    BitOr(BitOr(Shl(BitAnd(readUInt8(d, 17), 3), 10),
                Shl(readUInt8(d, 16), 2)),
          BitAnd(readUInt8(d, 15), 3))

\* lines 197-200: 12 bits out of bytes 15, 16 and 17
temperatureRawValueB(d) ==
    BitOr(BitOr(Shl(BitAnd(readUInt8(d, 17), 3), 10),
                Shl(readUInt8(d, 16), 2)),
          Shr(BitAnd(readUInt8(d, 15), 192), 6))

\* lines 201-204: a 12-bit unsigned integer to a signed one
signedTemperatureRawValue(raw) == IF raw > 2047 THEN raw - 4096 ELSE raw

\* lines 211-213: upper 6 bits of byte 17 and byte 18
batteryVoltageB(d) ==
    BitOr(Shl(readUInt8(d, 18), 6), Shr(BitAnd(readUInt8(d, 17), 252), 2))

\* The battery voltage without the test for the all-ones value.
measuredBatteryVoltageKept(mv) == Some(mv)

\* line 214: all 14 bits set means not measured yet
measuredBatteryVoltage(mv) == IF mv = 16383 THEN Undefined ELSE Some(mv)

\* lines 221-227: version 0 only
errorsBReads(pv) == pv = 0

errorsB(d, pv) ==
    IF pv = 0
    THEN Some([hasFirmwareError |-> BitAnd(readUInt8(d, 19), 1) = 1,
               hasClockError    |-> Shr(BitAnd(readUInt8(d, 19), 2), 1) = 1])
    ELSE Undefined

\* lines 233-237: from version 1 on; 255 means not measured yet
batteryLevelReads(pv) == pv >= 1

batteryLevel(d, pv) ==
    IF pv >= 1
    THEN (IF readUInt8(d, 19) = 255 THEN Undefined ELSE Some(readUInt8(d, 19)))
    ELSE Undefined

----------------------------------------------------------------------------
(* parseEstimoteTelemetryPacket: one statement per step.  A label is the   *)
(* line of the statement the frame is at.  g is the global `temperature`.  *)

\* lines 142-146: the record subframe A returns
telemetryRecordA(f) ==
    [shortIdentifier     |-> f.v["shortIdentifier"],
     frameType           |-> Some("Estimote Telemetry"),
     subFrameType        |-> Some("A"),
     protocolVersion     |-> f.v["protocolVersion"],
     acceleration        |-> f.v["acceleration"],
     isMoving            |-> f.v["isMoving"],
     motionStateDuration |-> f.v["motionStateDuration"],
     pressure            |-> f.v["pressure"],
     gpio                |-> f.v["gpio"],
     errors              |-> f.v["errors"]]

\* lines 239-244: the record subframe B returns; `temperature` is read from
\* the global variable
telemetryRecordB(f, g) ==
    [shortIdentifier   |-> f.v["shortIdentifier"],
     frameType         |-> Some("Estimote Telemetry"),
     subFrameType      |-> Some("B"),
     protocolVersion   |-> f.v["protocolVersion"],
     magneticField     |-> f.v["magneticField"],
     ambientLightLevel |-> f.v["ambientLightLevel"],
     temperature       |-> g,
     uptime            |-> f.v["uptime"],
     batteryVoltage    |-> f.v["batteryVoltage"],
     batteryLevel      |-> f.v["batteryLevel"],
     errors            |-> f.v["errors"]]

\* line 13
isTelemetryFrame(frameType) == frameType = ESTIMOTE_FRAME_TYPE_TELEMETRY

\* The version guard one version too wide.
isUnderstoodVersionUpTo3(pv) == ~(pv > 3)

\* line 19: this parser only understands versions up to 2
isUnderstoodVersion(pv) == ~(pv > 2)

\* The assignment keeping a temperature that is already there.
assignTemperatureOnce(g, raw) == IF g = Undefined THEN Some(Ratio(raw, 16)) ELSE g

\* line 205: the assignment to the undeclared `temperature`
assignTemperature(g, raw) == Some(Ratio(raw, 16))

telemetryStep(f, g) ==
    LET d == f.data
        L(name) == f.v[name][1]
        Local(f2) == [f |-> f2, g |-> g]
        Read(off, n, f2) == Local(IF CanRead(d, off, n) THEN f2 ELSE Throw(f))
    IN  CASE f.pc = "T11" ->
               Read(0, 1, Assign(f, "frameType", Some(telemetryFrameType(d)), "T13"))
          [] f.pc = "T13" ->
               Local(IF isTelemetryFrame(L("frameType")) THEN Goto(f, "T16")
                     ELSE Return(f, Undefined))
          [] f.pc = "T16" ->
               Read(0, 1, Assign(f, "protocolVersion", Some(protocolVersion(d)), "T19"))
          [] f.pc = "T19" ->
               Local(IF isUnderstoodVersion(L("protocolVersion")) THEN Goto(f, "T22")
                     ELSE Return(f, Undefined))
          [] f.pc = "T22" ->
               Local(Assign(f, "shortIdentifier", Some(shortIdentifier(d)), "T27"))
          [] f.pc = "T27" ->
               Read(9, 1, Assign(f, "subFrameType", Some(subFrameType(d)), "T35"))
          [] f.pc = "T35" ->
               Local(IF L("subFrameType") = ESTIMOTE_TELEMETRY_SUBFRAME_A
                     THEN Goto(f, "A43")
                     ELSE IF L("subFrameType") = ESTIMOTE_TELEMETRY_SUBFRAME_B
                     THEN Goto(f, "B160")
                     ELSE Return(f, Undefined))
          \* subframe A
          [] f.pc = "A43" ->
               Read(10, 3, Assign(f, "acceleration", Some(accelerationA(d)), "A52"))
          [] f.pc = "A52" ->
               Read(15, 1, Assign(f, "isMoving", Some(isMovingA(d)), "A87"))
          [] f.pc = "A87" ->
               Read(13, 2, Assign(f, "motionStateDuration",
                                  Some(motionStateDurationA(d)), "A95"))
          [] f.pc = "A95" ->
               Read(15, 1, Assign(f, "gpio", Some(gpio(d)), "A104"))
          [] f.pc = "A104" ->
               IF errorsAReads(L("protocolVersion"))
               THEN Read(errorsAOffset(L("protocolVersion")), 1,
                         Assign(f, "errors", errorsA(d, L("protocolVersion")), "A129"))
               ELSE Local(Goto(f, "A129"))
          [] f.pc = "A129" ->
               IF pressureReads(L("protocolVersion"))
               THEN Read(16, 4,
                         Assign(f, "pressure", pressure(d, L("protocolVersion")), "A142"))
               ELSE Local(Goto(f, "A142"))
          [] f.pc = "A142" ->
               Local(Return(f, Some(telemetryRecordA(f))))
          \* subframe B
          [] f.pc = "B160" ->
               Read(10, 3, Assign(f, "magneticField", Some(magneticField(d)), "B170"))
          [] f.pc = "B170" ->
               Read(13, 1, Assign(f, "ambientLightUpper",
                                  Some(ambientLightUpper(d)), "B171"))
          [] f.pc = "B171" ->
               Read(13, 1, Assign(f, "ambientLightLower",
                                  Some(ambientLightLower(d)), "B172"))
          [] f.pc = "B172" ->
               Local(Assign(f, "ambientLightLevel",
                            Some(ambientLightLevel(L("ambientLightUpper"),
                                                   L("ambientLightLower"))), "B180"))
          [] f.pc = "B180" ->
               Read(15, 1, Assign(f, "uptimeUnitCode", Some(uptimeUnitCode(d)), "B182"))
          [] f.pc = "B182" ->
               Local(Assign(f, "uptimeUnit", uptimeUnit(L("uptimeUnitCode")), "B188"))
          [] f.pc = "B188" ->
               Read(14, 2, Assign(f, "uptime",
                                  Some([number |-> uptimeNumber(d),
                                        unit   |-> f.v["uptimeUnit"]]), "B197"))
          [] f.pc = "B197" ->
               Read(15, 3, Assign(f, "temperatureRawValue",
                                  Some(temperatureRawValueB(d)), "B201"))
          [] f.pc = "B201" ->
               Local(Assign(f, "temperatureRawValue",
                            Some(signedTemperatureRawValue(L("temperatureRawValue"))),
                            "B205"))
          [] f.pc = "B205" ->
               [f |-> Goto(f, "B211"),
                g |-> assignTemperature(g, L("temperatureRawValue"))]
          [] f.pc = "B211" ->
               Read(17, 2, Assign(f, "batteryVoltage", Some(batteryVoltageB(d)), "B214"))
          [] f.pc = "B214" ->
               Local(Assign(f, "batteryVoltage",
                            measuredBatteryVoltage(L("batteryVoltage")), "B221"))
          [] f.pc = "B221" ->
               IF errorsBReads(L("protocolVersion"))
               THEN Read(19, 1,
                         Assign(f, "errors", errorsB(d, L("protocolVersion")), "B233"))
               ELSE Local(Goto(f, "B233"))
          [] f.pc = "B233" ->
               IF batteryLevelReads(L("protocolVersion"))
               THEN Read(19, 1,
                         Assign(f, "batteryLevel",
                                batteryLevel(d, L("protocolVersion")), "B239"))
               ELSE Local(Goto(f, "B239"))
          [] f.pc = "B239" ->
               Local(Return(f, Some(telemetryRecordB(f, g))))

----------------------------------------------------------------------------
(* parseEstimoteNearablePacket (src/unnamed/part_000) *)

\* line 17: Estimote's Company Identifier, 0x015d
ESTIMOTE_COMPANY_ID == 349

\* line 22: Nearable packet version 1
NEARABLE_FRAME_TYPE == 1

\* The company identifier read big-endian.
companyIdBigEndian(d) == 256 * d[1] + d[2]

\* line 15
companyId(d) == readUInt16LE(d, 0)

\* line 21
nearableFrameType(d) == readUInt8(d, 2)

\* line 26: bytes 3..10 as hex
nearableId(d) == toStringHex(d, 3, 11)

\* line 31: the lower 12 bits of the little-endian word at offset 13
temperatureRawValueN(d) == BitAnd(readUInt16LE(d, 13), 4095)

\* lines 32-35: a 12-bit unsigned integer to a signed one
signedTemperatureRawValueN(raw) == IF raw > 2047 THEN raw - 4096 ELSE raw

\* line 36: RAW_VALUE / 16.0
temperatureN(raw) == Ratio(raw, 16)

\* line 39: (byte 15 & 0b01000000) == 1
isMovingN(d) == BitAnd(readUInt8(d, 15), 64) = 1

\* lines 47-51: RAW_VALUE * 15.625
accelerationN(d) ==
    [x |-> Ratio(readInt8(d, 16) * 15625, 1000),
     y |-> Ratio(readInt8(d, 17) * 15625, 1000),
     z |-> Ratio(readInt8(d, 18) * 15625, 1000)]

\* lines 68-85
parseMotionStateDurationNearable(b) ==
    LET number   == BitAnd(b, 63)
        unitCode == Shr(BitAnd(b, 192), 6)
    IN  IF unitCode = 0 THEN [number |-> number, unit |-> "seconds"]
        ELSE IF unitCode = 1 THEN [number |-> number, unit |-> "minutes"]
        ELSE IF unitCode = 2 THEN [number |-> number, unit |-> "hours"]
        ELSE IF unitCode = 3 /\ number < 32 THEN [number |-> number, unit |-> "days"]
        ELSE [number |-> number - 32, unit |-> "weeks"]

\* lines 86-89: current from byte 19, previous from byte 20
motionStateDurationN(d) ==
    [current  |-> parseMotionStateDurationNearable(readUInt8(d, 19)),
     previous |-> parseMotionStateDurationNearable(readUInt8(d, 20))]

\* lines 91-95
nearableRecord(f) ==
    [nearableId          |-> f.v["nearableId"],
     temperature         |-> f.v["temperature"],
     isMoving            |-> f.v["isMoving"],
     motionStateDuration |-> f.v["motionStateDuration"],
     acceleration        |-> f.v["acceleration"]]

\* line 17
isEstimoteCompany(id) == id = ESTIMOTE_COMPANY_ID

\* line 22
isNearableFrame(frameType) == frameType = NEARABLE_FRAME_TYPE

\* Every variable of this function is declared with `var`: no step touches g.
nearableStep(f, g) ==
    LET d == f.data
        L(name) == f.v[name][1]
        Local(f2) == [f |-> f2, g |-> g]
        Read(off, n, f2) == Local(IF CanRead(d, off, n) THEN f2 ELSE Throw(f))
    IN  CASE f.pc = "N15" ->
               Read(0, 2, Assign(f, "companyId", Some(companyId(d)), "N17"))
          [] f.pc = "N17" ->
               Local(IF isEstimoteCompany(L("companyId")) THEN Goto(f, "N21")
                     ELSE Return(f, Undefined))
          [] f.pc = "N21" ->
               Read(2, 1, Assign(f, "frameType", Some(nearableFrameType(d)), "N22"))
          [] f.pc = "N22" ->
               Local(IF isNearableFrame(L("frameType")) THEN Goto(f, "N26")
                     ELSE Return(f, Undefined))
          [] f.pc = "N26" ->
               Local(Assign(f, "nearableId", Some(nearableId(d)), "N31"))
          [] f.pc = "N31" ->
               Read(13, 2, Assign(f, "temperatureRawValue",
                                  Some(temperatureRawValueN(d)), "N32"))
          [] f.pc = "N32" ->
               Local(Assign(f, "temperatureRawValue",
                            Some(signedTemperatureRawValueN(L("temperatureRawValue"))),
                            "N36"))
          [] f.pc = "N36" ->
               Local(Assign(f, "temperature",
                            Some(temperatureN(L("temperatureRawValue"))), "N39"))
          [] f.pc = "N39" ->
               Read(15, 1, Assign(f, "isMoving", Some(isMovingN(d)), "N47"))
          [] f.pc = "N47" ->
               Read(16, 3, Assign(f, "acceleration", Some(accelerationN(d)), "N86"))
          [] f.pc = "N86" ->
               Read(19, 2, Assign(f, "motionStateDuration",
                                  Some(motionStateDurationN(d)), "N91"))
          [] f.pc = "N91" ->
               Local(Return(f, Some(nearableRecord(f))))

----------------------------------------------------------------------------
(* Calls *)

step(f, g) == IF f.fn = "telemetry" THEN telemetryStep(f, g) ELSE nearableStep(f, g)

\* A call run from its first statement to its return or throw, with nothing
\* in between: JavaScript runs a synchronous function to completion.
RECURSIVE run(_, _)
run(f, g) ==
    IF Finished(f) THEN [f |-> f, g |-> g]
    ELSE LET s == step(f, g) IN run(s.f, s.g)

\* parseEstimoteTelemetryPacket(d) with the global `temperature` being g
parseEstimoteTelemetryPacket(d, g) == run(NewFrame("telemetry", d), g)

\* parseEstimoteNearablePacket(d)
parseEstimoteNearablePacket(d, g) == run(NewFrame("nearable", d), g)

----------------------------------------------------------------------------
(* Buffers the decoders are applied to *)

\* A Telemetry subframe (version 2, subframe A) and a Nearable packet, as
\* broadcast; buffers longer than these are padded with zero bytes.
SampleTelemetry ==
    <<34, 1, 35, 69, 103, 137, 171, 205, 239, 0, 10, 236, 30, 69, 224, 145,
      252, 152, 136, 1, 0>>

SampleNearable ==
    <<93, 1, 1, 1, 35, 69, 103, 137, 171, 205, 239, 4, 0, 0, 16, 64, 10, 236,
      226, 5, 5>>

\* The first len bytes of sample, with the bytes at the offsets of `over`
\* replaced.
Buffer(sample, len, over) ==
    [i \in 1..len |->
        IF (i - 1) \in DOMAIN over THEN over[i - 1]
        ELSE IF i <= Len(sample) THEN sample[i]
        ELSE 0]

Bytes == 0..255

\* Byte 9 of a Telemetry packet: every subframe selector, under both settings
\* of the bits above it.
SelectorBytes == {0, 1, 2, 3, 252, 253, 254, 255}

\* Full-length Telemetry buffers over every byte 0 and the selector bytes.
TelemetryDiscriminatorBuffers ==
    {Buffer(SampleTelemetry, BufferLength, (0 :> b0) @@ (9 :> b9)) :
        b0 \in Bytes, b9 \in SelectorBytes}

\* Full-length Telemetry buffers of versions 0..2 and both subframes, over
\* the bytes of the version-dependent fields (16..19).
TelemetryOptionalBuffers ==
    {Buffer(SampleTelemetry, BufferLength,
            (0 :> b0) @@ (9 :> b9) @@ (17 :> b17) @@ (18 :> b18) @@ (19 :> b19)) :
        b0 \in {2, 18, 34}, b9 \in {0, 1},
        b17 \in {0, 3, 248, 252, 255}, b18 \in {0, 127, 254, 255},
        b19 \in {0, 1, 2, 3, 100, 254, 255}}

UptimeBits == {0, 21, 42, 63}

VoltageBits == {0, 84, 252}

\* Full-length Telemetry subframe-B buffers over the bytes that hold the
\* temperature (15, 16, 17) next to the uptime and the battery voltage.
TelemetryTemperatureBuffers ==
    {Buffer(SampleTelemetry, BufferLength,
            (0 :> b0) @@ (9 :> 1) @@ (15 :> (64 * t0 + u)) @@ (16 :> b16)
            @@ (17 :> (v + t2))) :
        b0 \in {2, 18}, t0 \in 0..3, u \in UptimeBits,
        b16 \in {0, 1, 127, 128, 170, 255}, v \in VoltageBits, t2 \in 0..3}

\* Full-length Nearable buffers over every byte 0 and some bytes 1 and 2.
NearableDiscriminatorBuffers ==
    {Buffer(SampleNearable, BufferLength, (0 :> b0) @@ (1 :> b1) @@ (2 :> b2)) :
        b0 \in Bytes, b1 \in {0, 1, 2, 93, 255}, b2 \in {0, 1, 2, 255}}

\* Full-length Nearable packets over every byte 15 and some temperatures.
NearableFieldBuffers ==
    {Buffer(SampleNearable, BufferLength,
            (13 :> b13) @@ (14 :> b14) @@ (15 :> b15)) :
        b13 \in {0, 255}, b14 \in {0, 7, 8, 16}, b15 \in Bytes}

\* Prefixes, shorter than a full buffer, of packets of both formats.
TruncatedBuffers ==
    {Buffer(SampleTelemetry, len, (0 :> b0) @@ (9 :> b9)) :
        len \in 0..(BufferLength - 1), b0 \in {2, 18, 34, 50, 33}, b9 \in {0, 1, 2}}
    \cup
    {Buffer(SampleNearable, len, (2 :> b2)) :
        len \in 0..(BufferLength - 1), b2 \in {1, 2}}

FullBuffers ==
    TelemetryDiscriminatorBuffers \cup TelemetryOptionalBuffers
    \cup TelemetryTemperatureBuffers \cup NearableDiscriminatorBuffers
    \cup NearableFieldBuffers

----------------------------------------------------------------------------
(* One decode call on a given buffer *)

NotDecoded == [nearable |-> Undefined, telemetry |-> Undefined]

InitDecode ==
    /\ data \in FullBuffers \cup TruncatedBuffers
    /\ decoder = "none"
    /\ result = NotCalled
    /\ calls = 0
    /\ temperature = Undefined
    /\ frames = <<>>
    /\ byte = 0
    /\ duration = NotDecoded

\* The effect of a call that ended as r: the buffer is what the call left of
\* it, the global what the call left of it.
Called(fn, r) ==
    /\ data' = r.f.data
    /\ decoder' = fn
    /\ result' = Outcome(r.f)
    /\ temperature' = r.g
    /\ calls' = calls + 1
    /\ UNCHANGED <<frames, byte, duration>>

applyTelemetry ==
    /\ decoder = "none"
    /\ Called("telemetry", parseEstimoteTelemetryPacket(data, temperature))

applyNearable ==
    /\ decoder = "none"
    /\ Called("nearable", parseEstimoteNearablePacket(data, temperature))

NextDecode == applyTelemetry \/ applyNearable

SpecDecode == InitDecode /\ [][NextDecode]_vars

----------------------------------------------------------------------------
(* Properties of one decode call (SpecDecode) *)

IsRecord == result.kind = "record"

Rec == result.value[1]

IsSubframe(t) == decoder = "telemetry" /\ IsRecord /\ Rec.subFrameType = Some(t)

\* The record a Telemetry call returns for buffer d when it runs alone.
TelemetryAlone(d) == parseEstimoteTelemetryPacket(d, Undefined).f.ret[1]

\* C1: on a full-length buffer the Telemetry decoder returns a record exactly
\* when the lower 4 bits of byte 0 are 2, the upper 4 bits (the protocol
\* version) are at most 2 and the lower 2 bits of byte 9 are 0 or 1, and
\* returns undefined for every other buffer; the record's subFrameType is 'A'
\* for selector 0 and 'B' for selector 1, and its protocolVersion is the upper
\* 4 bits of byte 0.
C1_TelemetryAcceptance ==
    (decoder = "telemetry" /\ Len(data) >= BufferLength) =>
        LET ft  == data[1] % 16
            pv  == data[1] \div 16
            sel == data[10] % 4
            accepted == ft = 2 /\ pv <= 2 /\ sel \in {0, 1}
        IN  /\ IsRecord <=> accepted
            /\ ~accepted => result.kind = "undefined"
            /\ accepted =>
                 /\ Rec.subFrameType = Some(IF sel = 0 THEN "A" ELSE "B")
                 /\ Rec.protocolVersion = Some(pv)

\* C1's case: a full-length version-1 buffer accepted as subframe B although
\* the bits above the selector are set, next to which others are rejected.
C1_Witness ==
    /\ IsSubframe("B")
    /\ Len(data) >= BufferLength
    /\ data[1] = 18
    /\ data[10] = 253

\* C2: on a buffer of at least 21 bytes the Nearable decoder returns a record
\* exactly when the little-endian 16-bit value of bytes 0-1 is 0x015d and
\* byte 2 is 0x01, and returns undefined for every other buffer; every record
\* has the five fields nearableId, temperature, isMoving, motionStateDuration
\* and acceleration, none of them undefined.
C2_NearableAcceptance ==
    (decoder = "nearable" /\ Len(data) >= BufferLength) =>
        LET accepted == data[1] = 93 /\ data[2] = 1 /\ data[3] = 1
        IN  /\ IsRecord <=> accepted
            /\ ~accepted => result.kind = "undefined"
            /\ accepted =>
                 /\ DOMAIN Rec = {"nearableId", "temperature", "isMoving",
                                  "motionStateDuration", "acceleration"}
                 /\ \A k \in DOMAIN Rec : Rec[k] # Undefined

\* C2's case: an accepted full-length Nearable packet.
C2_Witness ==
    /\ decoder = "nearable"
    /\ IsRecord
    /\ Len(data) >= BufferLength
    /\ data[16] = 64

\* C3: for every accepted Nearable buffer, isMoving is true exactly when bit 6
\* (mask 0b01000000) of byte 15 is set, whatever the other bits of byte 15.
C3_IsMovingIsBit6 ==
    (decoder = "nearable" /\ IsRecord) =>
        Rec.isMoving = Some((data[16] \div 64) % 2 = 1)

\* C5: in every record the Telemetry decoder returns, each optional field is
\* present exactly under its documented condition and undefined otherwise.
\* Subframe A: errors iff version 1 or 2, pressure iff version 2.  Subframe B:
\* errors iff version 0, batteryLevel iff version >= 1 and byte 19 is not 255,
\* batteryVoltage iff the 14-bit field (byte 18 << 6 | byte 17 >> 2) is not
\* 16383; a present battery field holds the value read.
C5_OptionalFields ==
    (decoder = "telemetry" /\ IsRecord) =>
        LET pv == data[1] \div 16
        IN  IF Rec.subFrameType = Some("A")
            THEN /\ Rec.errors # Undefined <=> pv \in {1, 2}
                 /\ Rec.pressure # Undefined <=> pv = 2
            ELSE LET mv == 64 * data[19] + (data[18] \div 4)
                 IN  /\ Rec.errors # Undefined <=> pv = 0
                     /\ Rec.batteryLevel # Undefined <=> (pv >= 1 /\ data[20] # 255)
                     /\ Rec.batteryLevel # Undefined => Rec.batteryLevel = Some(data[20])
                     /\ Rec.batteryVoltage # Undefined <=> mv # 16383
                     /\ Rec.batteryVoltage # Undefined => Rec.batteryVoltage = Some(mv)

\* C5's case: a version-1 subframe B whose battery voltage and battery level
\* are both all-ones, so that every optional field is undefined.
C5_Witness ==
    /\ IsSubframe("B")
    /\ data[1] = 18
    /\ data[18] = 252 /\ data[19] = 255 /\ data[20] = 255
    /\ Rec.batteryVoltage = Undefined
    /\ Rec.batteryLevel = Undefined
    /\ Rec.errors = Undefined

\* C6: a truncated buffer of the decoder's own format always ends in a
\* RangeError, never in a record and never in undefined: every Telemetry buffer
\* shorter than a full buffer with frame type 2 and version <= 2, and every
\* Nearable buffer shorter than a full buffer with company id 0x015d and frame
\* type 0x01, whatever the remaining bytes are.
C6_TruncatedAlwaysThrows ==
    /\ (/\ decoder = "telemetry"
        /\ Len(data) < BufferLength
        /\ Len(data) >= 1
        /\ data[1] % 16 = 2
        /\ data[1] \div 16 <= 2) => result.kind = "RangeError"
    /\ (/\ decoder = "nearable"
        /\ Len(data) < BufferLength
        /\ Len(data) >= 3
        /\ data[1] = 93 /\ data[2] = 1 /\ data[3] = 1) => result.kind = "RangeError"

\* C8: a decode call changes nothing but its returned record: the buffer and
\* every variable visible outside the call are after the call what they were
\* before it.
C8_DecodeChangesOnlyItsResult ==
    [][data' = data /\ temperature' = temperature]_vars

\* Values put in place of the uptime bits (byte 15, bits 0-5) and the battery
\* voltage bits (byte 17, bits 2-7), and in place of the temperature bits.
OtherUptimeAndVoltage(d) ==
    {[d EXCEPT ![16] = 64 * (d[16] \div 64) + u, ![18] = (d[18] % 4) + v] :
        u \in UptimeBits, v \in VoltageBits}

OtherTemperature(d) ==
    {[d EXCEPT ![16] = 64 * t0 + (d[16] % 64), ![17] = b16,
               ![18] = 4 * (d[18] \div 4) + t2] :
        t0 \in 0..3, b16 \in {85, 255}, t2 \in 0..3}

\* C10: for every accepted Telemetry subframe-B buffer the temperature, in
\* sixteenths of a degree, is the two's-complement reading of the 12-bit value
\* v whose bits 0-1 are bits 6-7 of byte 15, bits 2-9 are byte 16 and bits
\* 10-11 are bits 0-1 of byte 17: v for v <= 2047 and v - 4096 above, so
\* within -2048..2047.  It does not depend on bits 0-5 of byte 15 or bits 2-7
\* of byte 17, and the uptime number and the battery voltage do not depend on
\* the temperature bits.
C10_TemperatureField ==
    IsSubframe("B") =>
        LET v == (data[16] \div 64) + 4 * data[17] + 1024 * (data[18] % 4)
        IN  /\ Rec.temperature = Some(Ratio(IF v <= 2047 THEN v ELSE v - 4096, 16))
            /\ Rec.temperature[1].num \in -2048..2047
            /\ \A d \in OtherUptimeAndVoltage(data) :
                 TelemetryAlone(d).temperature = Rec.temperature
            /\ \A d \in OtherTemperature(data) :
                 LET other == TelemetryAlone(d)
                 IN  /\ other.uptime[1].number = Rec.uptime[1].number
                     /\ other.batteryVoltage = Rec.batteryVoltage

\* C10's case: the most negative temperature, v = 2048, between set uptime
\* and battery voltage bits.
C10_Witness ==
    /\ IsSubframe("B")
    /\ data[16] = 63 /\ data[17] = 0 /\ data[18] = 254
    /\ Rec.temperature = Some(Ratio(-2048, 16))

----------------------------------------------------------------------------
(* Decode calls one after another: the `discover` handlers *)

\* Telemetry buffers of versions 0 and 2 and of an unknown version, of both
\* subframes and with three temperatures, and two subframes B cut short:
\* before the temperature is read, and between its assignment and the read
\* of the battery voltage.
TelemetryCallBuffers ==
    {Buffer(SampleTelemetry, BufferLength, (0 :> b0) @@ (9 :> b9) @@ (16 :> b16)) :
        b0 \in {2, 34, 50}, b9 \in {0, 1}, b16 \in {0, 100, 200}}
    \cup {Buffer(SampleTelemetry, len, (9 :> 1)) : len \in {16, 18}}

NearableCallBuffers ==
    {Buffer(SampleNearable, BufferLength, (0 :> b0) @@ (13 :> b13)) :
        b0 \in {93, 0}, b13 \in {0, 40}}

Init ==
    /\ data = <<>>
    /\ decoder = "none"
    /\ result = NotCalled
    /\ calls = 0
    /\ temperature = Undefined
    /\ frames = <<>>
    /\ byte = 0
    /\ duration = NotDecoded

\* The effect of a handler that passed buffer d to decoder fn, which ended as r.
Discovered(fn, d, r) ==
    /\ data' = d
    /\ decoder' = fn
    /\ result' = Outcome(r.f)
    /\ temperature' = r.g
    /\ calls' = calls + 1
    /\ UNCHANGED <<frames, byte, duration>>

\* estimote-telemetry.js, noble.on('discover'): the service data is parsed
discoverTelemetry ==
    /\ calls < MaxCalls
    /\ \E d \in TelemetryCallBuffers :
         Discovered("telemetry", d, parseEstimoteTelemetryPacket(d, temperature))

\* part_000, noble.on('discover'): the manufacturer data is parsed
discoverNearable ==
    /\ calls < MaxCalls
    /\ \E d \in NearableCallBuffers :
         Discovered("nearable", d, parseEstimoteNearablePacket(d, temperature))

Next == discoverTelemetry \/ discoverNearable

Spec == Init /\ [][Next]_vars

\* What decoder fn makes of buffer d as the very first call.
FirstCall(fn, d) ==
    IF fn = "telemetry"
    THEN Outcome(parseEstimoteTelemetryPacket(d, Undefined).f)
    ELSE Outcome(parseEstimoteNearablePacket(d, Undefined).f)

\* C9: the result of a decode depends only on the buffer passed to it: after
\* any sequence of earlier calls of either decoder, decoding a buffer gives
\* the result that decoding it as the very first call gives.
C9_ResultDependsOnlyOnBuffer ==
    decoder # "none" => result = FirstCall(decoder, data)

\* C9's case: a Nearable record returned after an earlier Telemetry call has
\* left a temperature of its own in the global variable.
C9_Witness ==
    /\ calls >= 2
    /\ decoder = "nearable"
    /\ IsRecord
    /\ temperature # Undefined
    /\ Rec.temperature # temperature

----------------------------------------------------------------------------
(* The motion-state duration decoders on one byte *)

InitDuration ==
    /\ byte \in Bytes
    /\ duration = NotDecoded
    /\ data = <<>>
    /\ decoder = "none"
    /\ result = NotCalled
    /\ calls = 0
    /\ temperature = Undefined
    /\ frames = <<>>

decodeDuration ==
    /\ duration = NotDecoded
    /\ duration' = [nearable  |-> Some(parseMotionStateDurationNearable(byte)),
                    telemetry |-> Some(parseMotionStateDurationTelemetry(byte))]
    /\ UNCHANGED <<data, decoder, result, calls, temperature, frames, byte>>

NextDuration == decodeDuration

SpecDuration == InitDuration /\ [][NextDuration]_vars

DurationUnits == <<"seconds", "minutes", "hours">>

\* C4: for every byte the duration decoders take the lower 6 bits as the
\* magnitude m and the upper 2 bits as the unit code.  Codes 0, 1, 2 give
\* {m, seconds}, {m, minutes}, {m, hours}.  For code 3 the Nearable decoder
\* gives {m, days} for m in 0..31 and {m - 32, weeks} for m in 32..63, the
\* Telemetry decoder {m, days} for m in 0..32 and {m - 32, weeks} for m in
\* 33..63.  The two differ only on the byte with code 3 and m = 32
\* ({0, weeks} against {32, days}), and the number is never negative.
C4_DurationDecoding ==
    duration # NotDecoded =>
        LET m    == byte % 64
            code == byte \div 64
            n    == duration.nearable[1]
            t    == duration.telemetry[1]
        IN  /\ code <= 2 =>
                 /\ n = [number |-> m, unit |-> DurationUnits[code + 1]]
                 /\ t = [number |-> m, unit |-> DurationUnits[code + 1]]
            /\ code = 3 =>
                 /\ n = IF m <= 31 THEN [number |-> m, unit |-> "days"]
                        ELSE [number |-> m - 32, unit |-> "weeks"]
                 /\ t = IF m <= 32 THEN [number |-> m, unit |-> "days"]
                        ELSE [number |-> m - 32, unit |-> "weeks"]
            /\ n # t <=> byte = 224
            /\ n.number >= 0
            /\ t.number >= 0

\* C4's case: the one byte on which the two decoders differ.
C4_Witness ==
    /\ byte = 224
    /\ duration.nearable = Some([number |-> 0, unit |-> "weeks"])
    /\ duration.telemetry = Some([number |-> 32, unit |-> "days"])

----------------------------------------------------------------------------
(* Decode calls interleaved statement by statement *)

Procs == 1..NumCalls

\* Subframes B with two temperatures, a subframe A and a Nearable packet.
InterleavedCalls ==
    {NewFrame("telemetry",
              Buffer(SampleTelemetry, BufferLength, (9 :> b9) @@ (16 :> b16))) :
        b9 \in {0, 1}, b16 \in {0, 100}}
    \cup {NewFrame("nearable", Buffer(SampleNearable, BufferLength, <<>>))}

InitInterleaved ==
    /\ frames \in [Procs -> InterleavedCalls]
    /\ temperature = Undefined
    /\ data = <<>>
    /\ decoder = "none"
    /\ result = NotCalled
    /\ calls = 0
    /\ byte = 0
    /\ duration = NotDecoded

\* Call p executes its next statement.
stepCall(p) ==
    /\ ~Finished(frames[p])
    /\ LET s == step(frames[p], temperature)
       IN  /\ frames' = [frames EXCEPT ![p] = s.f]
           /\ temperature' = s.g
    /\ UNCHANGED <<data, decoder, result, calls, byte, duration>>

NextInterleaved == \E p \in Procs : stepCall(p)

SpecInterleaved == InitInterleaved /\ [][NextInterleaved]_vars

====
